---- MODULE Spec2Model ----
(***************************************************************************)
(* Neural Spaced Mastery: the prediction service (server-src/ml/predict.py)*)
(* and the training pipeline (server-src/ml/train_model.py).               *)
(*                                                                         *)
(* Numbers are fixed-point, in tenths: 5 is 0.5, 10 is 1, 1800 is 180.     *)
(* A confidence is an exact fraction <<numerator, denominator>>.           *)
(***************************************************************************)
EXTENDS Integers, Sequences, FiniteSets, TLC

(* ------------------------------ bounds -------------------------------- *)
MaxKeys == 2      \* keys present in (or missing from) an enumerated mapping
MaxRuns == 2      \* runs of the training entry point

(* --------------------------- JSON values ------------------------------ *)
\* A JSON number (in tenths) and a JSON string, as they arrive in feature_data.
Num(n) == [kind |-> "num", num |-> n, str |-> ""]
Str(s) == [kind |-> "str", num |-> 0, str |-> s]

\* dict.get(key, default)
Get(d, k, dflt) == IF k \in DOMAIN d THEN d[k] ELSE dflt

FEATURE_KEYS ==
    << "item_difficulty", "user_mastery", "days_since_last_review",
       "response_time_seconds", "quality_rating", "repetition_count",
       "current_ease_factor", "current_interval", "hour_of_day", "day_of_week",
       "time_since_learning_start", "previous_interval", "learning_pace",
       "cluster_mastery", "is_quiz", "quiz_score", "quiz_questions_count" >>

KeySet == {FEATURE_KEYS[i] : i \in 1..Len(FEATURE_KEYS)}

(* ----------------- the feature vector, at prediction time ------------- *)
\* predict.py 72: {'fast': 2, 'medium': 1, 'slow': 0}.get(v, 1)
PredictPace(v) ==
    IF v = Str("fast") THEN Num(20)
    ELSE IF v = Str("medium") THEN Num(10)
    ELSE IF v = Str("slow") THEN Num(0)
    ELSE Num(10)

\* predict.py 59-77, with the first two fields in the wrong order
PredictFeaturesSwapped(feature_data) ==
    << Get(feature_data, "user_mastery", Num(5)),
       Get(feature_data, "item_difficulty", Num(5)),
       Get(feature_data, "days_since_last_review", Num(0)),
       Get(feature_data, "response_time_seconds", Num(50)),
       Get(feature_data, "quality_rating", Num(30)),
       Get(feature_data, "repetition_count", Num(0)),
       Get(feature_data, "current_ease_factor", Num(25)),
       Get(feature_data, "current_interval", Num(10)),
       Get(feature_data, "hour_of_day", Num(120)),
       Get(feature_data, "day_of_week", Num(30)),
       Get(feature_data, "time_since_learning_start", Num(0)),
       Get(feature_data, "previous_interval", Num(0)),
       PredictPace(Get(feature_data, "learning_pace", Str("medium"))),
       Get(feature_data, "cluster_mastery", Num(5)),
       Get(feature_data, "is_quiz", Num(0)),
       Get(feature_data, "quiz_score", Num(0)),
       Get(feature_data, "quiz_questions_count", Num(0)) >>

\* predict.py 59-77
PredictFeatures(feature_data) ==
    << Get(feature_data, "item_difficulty", Num(5)),
       Get(feature_data, "user_mastery", Num(5)),
       Get(feature_data, "days_since_last_review", Num(0)),
       Get(feature_data, "response_time_seconds", Num(50)),
       Get(feature_data, "quality_rating", Num(30)),
       Get(feature_data, "repetition_count", Num(0)),
       Get(feature_data, "current_ease_factor", Num(25)),
       Get(feature_data, "current_interval", Num(10)),
       Get(feature_data, "hour_of_day", Num(120)),
       Get(feature_data, "day_of_week", Num(30)),
       Get(feature_data, "time_since_learning_start", Num(0)),
       Get(feature_data, "previous_interval", Num(0)),
       PredictPace(Get(feature_data, "learning_pace", Str("medium"))),
       Get(feature_data, "cluster_mastery", Num(5)),
       Get(feature_data, "is_quiz", Num(0)),
       Get(feature_data, "quiz_score", Num(0)),
       Get(feature_data, "quiz_questions_count", Num(0)) >>

(* ------------------ the feature vector, at training time -------------- *)
\* train_model.py 74: {'fast': 2, 'medium': 1, 'slow': 0}.get(v, 1)
TrainPace(v) ==
    IF v = Str("fast") THEN Num(20)
    ELSE IF v = Str("medium") THEN Num(10)
    ELSE IF v = Str("slow") THEN Num(0)
    ELSE Num(10)

\* train_model.py 61-79

feature_vector(feature_data) ==
    << Get(feature_data, "item_difficulty", Num(5)),
       Get(feature_data, "user_mastery", Num(5)),
       Get(feature_data, "days_since_last_review", Num(0)),
       Get(feature_data, "response_time_seconds", Num(50)),
       Get(feature_data, "quality_rating", Num(30)),
       Get(feature_data, "repetition_count", Num(0)),
       Get(feature_data, "current_ease_factor", Num(25)),
       Get(feature_data, "current_interval", Num(10)),
       Get(feature_data, "hour_of_day", Num(120)),
       Get(feature_data, "day_of_week", Num(30)),
       Get(feature_data, "time_since_learning_start", Num(0)),
       Get(feature_data, "previous_interval", Num(0)),
       TrainPace(Get(feature_data, "learning_pace", Str("medium"))),
       Get(feature_data, "cluster_mastery", Num(5)),
       Get(feature_data, "is_quiz", Num(0)),
       Get(feature_data, "quiz_score", Num(0)),
       Get(feature_data, "quiz_questions_count", Num(0)) >>

(* --------------------- floating-point model outputs ------------------- *)
\* A float is finite (val, in tenths), an infinity (val is its sign) or NaN.
Fin(x) == [kind |-> "fin", val |-> x]
PosInf == [kind |-> "inf", val |-> 1]
NegInf == [kind |-> "inf", val |-> -1]
NaN == [kind |-> "nan", val |-> 0]

\* np.maximum(a, lo) and np.minimum(a, hi): both propagate NaN.
Maximum(a, lo) ==
    IF a.kind = "nan" THEN NaN
    ELSE IF a.kind = "inf" THEN (IF a.val > 0 THEN a ELSE Fin(lo))
    ELSE IF a.val < lo THEN Fin(lo) ELSE a

Minimum(a, hi) ==
    IF a.kind = "nan" THEN NaN
    ELSE IF a.kind = "inf" THEN (IF a.val < 0 THEN a ELSE Fin(hi))
    ELSE IF a.val > hi THEN Fin(hi) ELSE a

CLIP_MIN == 10      \* 1 day
CLIP_MAX == 1800    \* 180 days

\* predict.py 89: float(np.clip(prediction, 1, 180))
Clip(prediction) == Minimum(Maximum(prediction, CLIP_MIN), CLIP_MAX)

Abs(x) == IF x < 0 THEN -x ELSE x

HALF == <<1, 2>>

\* 1.0 - (abs(predicted - typical) / typical) * 0.5, as a fraction with a
\* positive denominator; typical # 0 and predicted finite.
RawConfidence(predicted, typical) ==
    IF typical > 0
    THEN << 2 * typical - Abs(predicted - typical), 2 * typical >>
    ELSE << Abs(predicted - typical) - 2 * typical, -2 * typical >>

\* max(0.5, x): Python returns x only when x > 0.5, so a NaN x gives 0.5.
Max05(x) == IF 2 * x[1] > x[2] THEN x ELSE HALF

\* predict.py 95 without the max(0.5, ...)
ConfidenceUnclamped(predicted_interval, typical_interval) ==
    IF predicted_interval.kind = "nan" THEN HALF
    ELSE RawConfidence(predicted_interval.val, typical_interval)

\* predict.py 94-95
Confidence(predicted_interval, typical_interval) ==
    IF predicted_interval.kind = "nan" THEN HALF
    ELSE Max05(RawConfidence(predicted_interval.val, typical_interval))

(* ------------------------------- state -------------------------------- *)
VARIABLES
    disk,        \* models/: nsm_model.keras, scaler.pkl, metadata.json
    cache,       \* the globals _model, _scaler, _metadata of predict.py
    active,      \* the threads of the prediction process that serve calls
    pc,          \* each thread's position in predict.py
    op,          \* the call a thread serves: "predict" or "status"
    handle,      \* the locals model, scaler, metadata
    seen,        \* the state of the cached handle when the call began
    response,    \* the last call that ended: its input and what the caller got
    modelLoads,  \* times line 34 assigned _model
    loadFailed,  \* some load_model call of this process has raised
    tpc,         \* the training run's position in train_model.py
    run,         \* training runs begun so far
    dbUrl,       \* DATABASE_URL is set for this run
    rows,        \* len(rows) of this run, -1 before the query
    exit,        \* how the training run ended: status, output, returned dict
    diskAtStart, \* the files as they were when this run began
    fd,          \* a feature mapping given to both vector builders
    predVec,     \* the vector predict_interval builds from fd
    trainVec     \* the vector extract_features builds from fd

vars == << disk, cache, active, pc, op, handle, seen, response, modelLoads,
           loadFailed, tpc, run, dbUrl, rows, exit, diskAtStart, fd, predVec,
           trainVec >>

serveVars == << cache, pc, op, handle, seen, response, modelLoads, loadFailed >>
trainVars == << tpc, run, dbUrl, rows, exit, diskAtStart >>
featVars == << fd, predVec, trainVec >>

Threads == {1, 2}

\* A file is ABSENT, TRUNCATED (present, unreadable) or holds the artifact
\* written by training run v, as the number v >= 1.
ABSENT == 0
TRUNCATED == -1
NONE == 0       \* Python's None in a cache slot

NoBundle == [model |-> ABSENT, scaler |-> ABSENT, metadata |-> ABSENT]
Bundle(v) == [model |-> v, scaler |-> v, metadata |-> v]
NoHandle == [model |-> NONE, scaler |-> NONE, metadata |-> NONE]

PRIOR == 1      \* the version of a bundle left by an earlier training run

(* --------------------------- call arguments --------------------------- *)
Dict(m) == [isdict |-> TRUE, map |-> m]
NotADict == [isdict |-> FALSE, map |-> << >>]
EmptyDict == Dict(<< >>)

InputObjects ==
    { NotADict, EmptyDict,
      Dict([k \in {"current_interval"} |-> Num(0)]),
      Dict([k \in {"current_interval"} |-> Num(100)]),
      Dict([k \in {"current_interval"} |-> Num(-10)]),
      Dict([k \in {"quiz_score"} |-> Str("abc")]) }

RawOutputs ==
    { Fin(-50), Fin(5), Fin(10), Fin(100), Fin(200), Fin(1800), Fin(1801),
      Fin(1000000000), PosInf, NegInf, NaN }

(* ------------------------------ results ------------------------------- *)
NoResult ==
    [kind |-> "none", success |-> FALSE, fallback_to_rules |-> FALSE,
     model_available |-> FALSE, predicted_interval |-> Fin(0),
     confidence |-> <<0, 1>>, model_version |-> NONE, error |-> "",
     raw |-> Fin(0)]

\* Exception classes the steps raise; all derive from Exception.
ExceptionClasses ==
    { "FileNotFoundError", "AttributeError", "ValueError", "ZeroDivisionError",
      "EOFError", "JSONDecodeError" }

\* predict.py 106-111 alone, without the except Exception clause
PredictHandlerOnlyNotFound(e) ==
    IF e = "FileNotFoundError"
    THEN [NoResult EXCEPT !.kind = "returned", !.fallback_to_rules = TRUE,
                          !.error = e]
    ELSE [NoResult EXCEPT !.kind = "raised", !.error = e]

\* predict.py 106-118
PredictHandler(e) ==
    IF e = "FileNotFoundError"
    THEN [NoResult EXCEPT !.kind = "returned", !.success = FALSE,
                          !.fallback_to_rules = TRUE, !.error = e]
    ELSE IF e \in ExceptionClasses
    THEN [NoResult EXCEPT !.kind = "returned", !.success = FALSE,
                          !.fallback_to_rules = TRUE, !.error = e]
    ELSE [NoResult EXCEPT !.kind = "raised", !.error = e]

\* predict.py 132-137: a bare except
StatusHandler(e) ==
    [NoResult EXCEPT !.kind = "returned", !.success = TRUE,
                     !.model_available = FALSE, !.error = e]

Handler(o, e) == IF o = "predict" THEN PredictHandler(e) ELSE StatusHandler(e)

HasString(vec) == \E i \in 1..Len(vec) : vec[i].kind = "str"

\* predict.py 58-104: the body of predict_interval after load_model returned
\* (model, scaler, metadata) = h, for an argument a and a model output raw.
PredictBody(h, a, raw) ==
    IF ~a.isdict THEN PredictHandler("AttributeError")                \* 60
    ELSE IF h.scaler = NONE THEN PredictHandler("AttributeError")     \* 83
    ELSE IF HasString(PredictFeatures(a.map)) THEN PredictHandler("ValueError")
    ELSE LET predicted_interval == Clip(raw)                          \* 89
             typical_interval == Get(a.map, "current_interval", Num(10)).num * 2
         IN IF typical_interval = 0 THEN PredictHandler("ZeroDivisionError")
            ELSE IF h.metadata = NONE THEN PredictHandler("AttributeError")
            ELSE [NoResult EXCEPT
                    !.kind = "returned", !.success = TRUE,
                    !.predicted_interval = predicted_interval,
                    !.confidence = Confidence(predicted_interval, typical_interval),
                    !.model_version = h.metadata,
                    !.raw = raw]

\* predict.py 122-131
StatusBody(h) ==
    IF h.metadata = NONE THEN StatusHandler("AttributeError")
    ELSE [NoResult EXCEPT !.kind = "returned", !.success = TRUE,
                          !.model_available = TRUE, !.model_version = h.metadata]

NoResponse ==
    [op |-> "none", arg |-> EmptyDict, handle |-> NoHandle,
     seen |-> "Uninitialized", result |-> NoResult]

(* ------------------------ the prediction process ---------------------- *)
Complete(h) == h.model # NONE /\ h.scaler # NONE /\ h.metadata # NONE

Loading(t) == pc[t] \in {"exists", "ld_model", "ld_scaler", "ld_metadata"}

\* Uninitialized -> Loading -> Ready | Unavailable, read off the globals.
HandleState ==
    IF Complete(cache) THEN "Ready"
    ELSE IF loadFailed THEN "Unavailable"
    ELSE IF \E t \in Threads : Loading(t) THEN "Loading"
    ELSE "Uninitialized"

\* The call ends: the caller has its result and the thread is free again.
\* The argument a takes no part in load_model, so it is drawn when it is
\* first read.
Respond(t, a, r) ==
    /\ response' = [op |-> op[t], arg |-> a, handle |-> handle[t],
                    seen |-> seen[t], result |-> r]
    /\ pc' = [pc EXCEPT ![t] = "idle"]
    /\ op' = [op EXCEPT ![t] = "none"]
    /\ handle' = [handle EXCEPT ![t] = NoHandle]
    /\ seen' = [seen EXCEPT ![t] = "Uninitialized"]

\* The CLI (predict.py 144-152) or a caller begins a call.
Call(t, o) ==
    /\ pc[t] = "idle"
    /\ pc' = [pc EXCEPT ![t] = "check"]
    /\ op' = [op EXCEPT ![t] = o]
    /\ seen' = [seen EXCEPT ![t] = HandleState]
    /\ UNCHANGED << disk, cache, active, handle, response, modelLoads, loadFailed >>
    /\ UNCHANGED trainVars /\ UNCHANGED featVars

\* An exception leaves load_model and reaches the caller's except clauses.
RaiseInLoad(t, e) ==
    /\ Respond(t, EmptyDict, Handler(op[t], e))
    /\ loadFailed' = TRUE

\* predict.py 30: if _model is None
CheckCached(t) ==
    /\ pc[t] = "check"
    /\ pc' = [pc EXCEPT ![t] = IF cache.model = NONE THEN "exists" ELSE "return"]
    /\ UNCHANGED << disk, cache, active, op, handle, seen, response,
                    modelLoads, loadFailed >>
    /\ UNCHANGED trainVars /\ UNCHANGED featVars

\* predict.py 31-32: os.path.exists(model_path)
CheckExists(t) ==
    /\ pc[t] = "exists"
    /\ IF disk.model = ABSENT
       THEN RaiseInLoad(t, "FileNotFoundError")
       ELSE /\ pc' = [pc EXCEPT ![t] = "ld_model"]
            /\ UNCHANGED << op, handle, seen, response, loadFailed >>
    /\ UNCHANGED << disk, cache, active, modelLoads >>
    /\ UNCHANGED trainVars /\ UNCHANGED featVars

\* predict.py 34: _model = keras.models.load_model(model_path)
LoadModelFile(t) ==
    /\ pc[t] = "ld_model"
    /\ IF disk.model \in {ABSENT, TRUNCATED}
       THEN /\ RaiseInLoad(t, "ValueError")
            /\ UNCHANGED << cache, modelLoads >>
       ELSE /\ cache' = [cache EXCEPT !.model = disk.model]
            /\ modelLoads' = modelLoads + 1
            /\ pc' = [pc EXCEPT ![t] = "ld_scaler"]
            /\ UNCHANGED << op, handle, seen, response, loadFailed >>
    /\ UNCHANGED << disk, active >>
    /\ UNCHANGED trainVars /\ UNCHANGED featVars

\* predict.py 36-37: _scaler = pickle.load(open(scaler_path, 'rb'))
LoadScalerFile(t) ==
    /\ pc[t] = "ld_scaler"
    /\ IF disk.scaler = ABSENT
       THEN RaiseInLoad(t, "FileNotFoundError") /\ UNCHANGED cache
       ELSE IF disk.scaler = TRUNCATED
       THEN RaiseInLoad(t, "EOFError") /\ UNCHANGED cache
       ELSE /\ cache' = [cache EXCEPT !.scaler = disk.scaler]
            /\ pc' = [pc EXCEPT ![t] = "ld_metadata"]
            /\ UNCHANGED << op, handle, seen, response, loadFailed >>
    /\ UNCHANGED << disk, active, modelLoads >>
    /\ UNCHANGED trainVars /\ UNCHANGED featVars

\* predict.py 39-40: _metadata = json.load(open(metadata_path, 'r'))
LoadMetadataFile(t) ==
    /\ pc[t] = "ld_metadata"
    /\ IF disk.metadata = ABSENT
       THEN RaiseInLoad(t, "FileNotFoundError") /\ UNCHANGED cache
       ELSE IF disk.metadata = TRUNCATED
       THEN RaiseInLoad(t, "JSONDecodeError") /\ UNCHANGED cache
       ELSE /\ cache' = [cache EXCEPT !.metadata = disk.metadata]
            /\ pc' = [pc EXCEPT ![t] = "return"]
            /\ UNCHANGED << op, handle, seen, response, loadFailed >>
    /\ UNCHANGED << disk, active, modelLoads >>
    /\ UNCHANGED trainVars /\ UNCHANGED featVars

\* predict.py 42: return _model, _scaler, _metadata
ReturnHandle(t) ==
    /\ pc[t] = "return"
    /\ handle' = [handle EXCEPT ![t] = cache]
    /\ pc' = [pc EXCEPT ![t] = "body"]
    /\ UNCHANGED << disk, cache, active, op, seen, response, modelLoads, loadFailed >>
    /\ UNCHANGED trainVars /\ UNCHANGED featVars

\* predict.py 58-118, with the model's output for this input chosen freely.
Predict(t) ==
    /\ pc[t] = "body" /\ op[t] = "predict"
    /\ \E a \in InputObjects, raw \in RawOutputs :
          Respond(t, a, PredictBody(handle[t], a, raw))
    /\ UNCHANGED << disk, cache, active, modelLoads, loadFailed >>
    /\ UNCHANGED trainVars /\ UNCHANGED featVars

\* predict.py 123-137
Status(t) ==
    /\ pc[t] = "body" /\ op[t] = "status"
    /\ Respond(t, EmptyDict, StatusBody(handle[t]))
    /\ UNCHANGED << disk, cache, active, modelLoads, loadFailed >>
    /\ UNCHANGED trainVars /\ UNCHANGED featVars

(* ------------------------- the training pipeline ---------------------- *)
MIN_SAMPLES == 500     \* train_nsm_model(min_samples=500)

RowCounts == {0, 10, 499, 500}

NoExit ==
    [status |-> -1, output |-> "none", success |-> FALSE, error |-> "",
     samples_collected |-> -1, samples_needed |-> -1]

\* An exception nobody catches ends the interpreter: traceback, status 1.
Uncaught(e) == [NoExit EXCEPT !.status = 1, !.output = "traceback", !.error = e]

\* train_model.py 251-252: print(json.dumps(result)); the script then ends.
Printed(r) == [r EXCEPT !.status = 0, !.output = "json"]

\* train_model.py 159-164, counting one row too few
InsufficientOffByOne(n, min_samples) ==
    [NoExit EXCEPT !.success = FALSE, !.error = "Not enough training data",
                   !.samples_collected = n - 1, !.samples_needed = min_samples]

\* train_model.py 159-164
Insufficient(n, min_samples) ==
    [NoExit EXCEPT !.success = FALSE, !.error = "Not enough training data",
                   !.samples_collected = n, !.samples_needed = min_samples]

\* train_model.py 240-247
Trained == [NoExit EXCEPT !.success = TRUE]

Version == PRIOR + run

\* python train_model.py
StartRun ==
    /\ tpc = "idle"
    /\ run < MaxRuns
    /\ run' = run + 1
    /\ \E set \in BOOLEAN : dbUrl' = set
    /\ diskAtStart' = disk
    /\ tpc' = "connect"
    /\ UNCHANGED << disk, active, rows, exit >>
    /\ UNCHANGED serveVars /\ UNCHANGED featVars

\* train_model.py 145-146 with 19-24: get_db_connection()
Connect ==
    /\ tpc = "connect"
    /\ \/ /\ ~dbUrl
          /\ exit' = Uncaught("ValueError") /\ tpc' = "exited"
       \/ /\ dbUrl
          /\ \/ exit' = Uncaught("OperationalError") /\ tpc' = "exited"
             \/ tpc' = "fetch" /\ UNCHANGED exit
    /\ UNCHANGED << disk, active, run, dbUrl, rows, diskAtStart >>
    /\ UNCHANGED serveVars /\ UNCHANGED featVars

\* train_model.py 149-164: the query, then the min_samples test
Fetch ==
    /\ tpc = "fetch"
    /\ \/ exit' = Uncaught("DatabaseError") /\ tpc' = "exited" /\ UNCHANGED rows
       \/ \E n \in RowCounts :
             /\ rows' = n
             /\ IF n < MIN_SAMPLES
                THEN /\ exit' = Printed(Insufficient(n, MIN_SAMPLES))
                     /\ tpc' = "exited"
                ELSE tpc' = "fit" /\ UNCHANGED exit
    /\ UNCHANGED << disk, active, run, dbUrl, diskAtStart >>
    /\ UNCHANGED serveVars /\ UNCHANGED featVars

\* train_model.py 169-214: features, split, scaler, fit, evaluate, makedirs
Fit ==
    /\ tpc = "fit"
    /\ \/ exit' = Uncaught("ValueError") /\ tpc' = "exited"
       \/ tpc' = "save_model" /\ UNCHANGED exit
    /\ UNCHANGED << disk, active, run, dbUrl, rows, diskAtStart >>
    /\ UNCHANGED serveVars /\ UNCHANGED featVars

\* train_model.py 219: model.save(model_path)
SaveModel ==
    /\ tpc = "save_model"
    /\ \/ /\ exit' = Uncaught("OSError") /\ tpc' = "exited"
          /\ \E left \in {disk.model, TRUNCATED} : disk' = [disk EXCEPT !.model = left]
       \/ /\ disk' = [disk EXCEPT !.model = Version]
          /\ tpc' = "open_scaler" /\ UNCHANGED exit
    /\ UNCHANGED << active, run, dbUrl, rows, diskAtStart >>
    /\ UNCHANGED serveVars /\ UNCHANGED featVars

\* train_model.py 220: open(scaler_path, 'wb') truncates the file
OpenScaler ==
    /\ tpc = "open_scaler"
    /\ \/ exit' = Uncaught("OSError") /\ tpc' = "exited" /\ UNCHANGED disk
       \/ /\ disk' = [disk EXCEPT !.scaler = TRUNCATED]
          /\ tpc' = "dump_scaler" /\ UNCHANGED exit
    /\ UNCHANGED << active, run, dbUrl, rows, diskAtStart >>
    /\ UNCHANGED serveVars /\ UNCHANGED featVars

\* train_model.py 221: pickle.dump(scaler, f), and the file is closed
DumpScaler ==
    /\ tpc = "dump_scaler"
    /\ \/ exit' = Uncaught("OSError") /\ tpc' = "exited" /\ UNCHANGED disk
       \/ /\ disk' = [disk EXCEPT !.scaler = Version]
          /\ tpc' = "open_metadata" /\ UNCHANGED exit
    /\ UNCHANGED << active, run, dbUrl, rows, diskAtStart >>
    /\ UNCHANGED serveVars /\ UNCHANGED featVars

\* train_model.py 235: open(metadata_path, 'w') truncates the file
OpenMetadata ==
    /\ tpc = "open_metadata"
    /\ \/ exit' = Uncaught("OSError") /\ tpc' = "exited" /\ UNCHANGED disk
       \/ /\ disk' = [disk EXCEPT !.metadata = TRUNCATED]
          /\ tpc' = "dump_metadata" /\ UNCHANGED exit
    /\ UNCHANGED << active, run, dbUrl, rows, diskAtStart >>
    /\ UNCHANGED serveVars /\ UNCHANGED featVars

\* train_model.py 236-252: json.dump(metadata, f), return, print
DumpMetadata ==
    /\ tpc = "dump_metadata"
    /\ \/ exit' = Uncaught("OSError") /\ tpc' = "exited" /\ UNCHANGED disk
       \/ /\ disk' = [disk EXCEPT !.metadata = Version]
          /\ exit' = Printed(Trained) /\ tpc' = "exited"
    /\ UNCHANGED << active, run, dbUrl, rows, diskAtStart >>
    /\ UNCHANGED serveVars /\ UNCHANGED featVars

\* The process is gone; the operator may start the next run.
EndRun ==
    /\ tpc = "exited"
    /\ tpc' = "idle"
    /\ dbUrl' = FALSE
    /\ rows' = -1
    /\ exit' = NoExit
    /\ diskAtStart' = disk
    /\ UNCHANGED << disk, active, run >>
    /\ UNCHANGED serveVars /\ UNCHANGED featVars

(* ----------------- the two vector builders, side by side -------------- *)
\* train_model.py 53-88: extract_features(training_data)
extract_features(training_data) ==
    [features |-> [i \in 1..Len(training_data) |->
                      feature_vector(training_data[i].feature_data)],
     targets |-> [i \in 1..Len(training_data) |->
                      Get(training_data[i].outcome_data, "next_interval", Num(10))]]

FeatureValues == {Num(7), Str("fast"), Str("medium"), Str("slow"), Str("turbo")}

\* Mappings with at most MaxKeys keys, and mappings lacking at most MaxKeys.
FewKeys == {S \in SUBSET KeySet : Cardinality(S) <= MaxKeys}

FeatureMappings ==
    UNION {[S -> FeatureValues] : S \in FewKeys}
    \cup {[k \in KeySet \ S |-> v] : S \in FewKeys, v \in FeatureValues}

\* predict.py 59-77
BuildAtPrediction ==
    /\ predVec = << >>
    /\ predVec' = PredictFeatures(fd)
    /\ UNCHANGED << disk, active, fd, trainVec >>
    /\ UNCHANGED serveVars /\ UNCHANGED trainVars

\* train_model.py 169-170, for a store holding the one row built from fd
BuildAtTraining ==
    /\ trainVec = << >>
    /\ trainVec' = extract_features(
                      << [feature_data |-> fd, outcome_data |-> << >>] >>).features[1]
    /\ UNCHANGED << disk, active, fd, predVec >>
    /\ UNCHANGED serveVars /\ UNCHANGED trainVars

(* --------------------------- the specifications ----------------------- *)
InitServe ==
    /\ cache = NoHandle
    /\ pc = [t \in Threads |-> "idle"]
    /\ op = [t \in Threads |-> "none"]
    /\ handle = [t \in Threads |-> NoHandle]
    /\ seen = [t \in Threads |-> "Uninitialized"]
    /\ response = NoResponse
    /\ modelLoads = 0
    /\ loadFailed = FALSE

InitTrain ==
    /\ tpc = "idle"
    /\ run = 0
    /\ dbUrl = FALSE
    /\ rows = -1
    /\ exit = NoExit
    /\ diskAtStart = disk

InitFeat ==
    /\ fd = << >>
    /\ predVec = << >>
    /\ trainVec = << >>

\* A fresh deployment, or one holding the bundle of an earlier training run.
Deployed == {NoBundle, Bundle(PRIOR)}

\* Every state of the three files: missing, unreadable or readable.
AnyDisk ==
    [model : {ABSENT, TRUNCATED, PRIOR}, scaler : {ABSENT, TRUNCATED, PRIOR},
     metadata : {ABSENT, TRUNCATED, PRIOR}]

Serve ==
    \/ \E t \in active : Call(t, "predict")
    \/ \E t \in active : Call(t, "status")
    \/ \E t \in active : CheckCached(t)
    \/ \E t \in active : CheckExists(t)
    \/ \E t \in active : LoadModelFile(t)
    \/ \E t \in active : LoadScalerFile(t)
    \/ \E t \in active : LoadMetadataFile(t)
    \/ \E t \in active : ReturnHandle(t)
    \/ \E t \in active : Predict(t)
    \/ \E t \in active : Status(t)

Train ==
    \/ StartRun \/ Connect \/ Fetch \/ Fit \/ SaveModel \/ OpenScaler
    \/ DumpScaler \/ OpenMetadata \/ DumpMetadata \/ EndRun

\* Spec: a single-threaded prediction process beside the training entry point.
Init ==
    /\ disk \in Deployed
    /\ active = {1}
    /\ InitServe /\ InitTrain /\ InitFeat

Next == Serve \/ Train

Spec == Init /\ [][Next]_vars

\* SpecRace: a prediction process with two threads, no training under way.
InitRace ==
    /\ disk \in Deployed
    /\ active = Threads
    /\ InitServe /\ InitTrain /\ InitFeat

SpecRace == InitRace /\ [][Serve]_vars

\* SpecServe: a single-threaded prediction process over any state of the files.
InitAnyDisk ==
    /\ disk \in AnyDisk
    /\ active = {1}
    /\ InitServe /\ InitTrain /\ InitFeat

SpecServe == InitAnyDisk /\ [][Serve]_vars

\* SpecTrain: the training entry point alone.
SpecTrain == Init /\ [][Train]_vars

\* SpecFeat: one feature mapping, taken through both vector builders.
InitFeatures ==
    /\ disk = NoBundle
    /\ active = {}
    /\ InitServe /\ InitTrain
    /\ fd \in FeatureMappings
    /\ predVec = << >>
    /\ trainVec = << >>

NextFeat == BuildAtPrediction \/ BuildAtTraining

SpecFeat == InitFeatures /\ [][NextFeat]_vars

(* ------------------------------ properties ---------------------------- *)
Responded(o) == response.op = o /\ response.result.kind # "none"

\* current_interval as predict_interval reads it at line 93
CurrentInterval(a) == Get(a.map, "current_interval", Num(10)).num

\* C1: neither call lets an error reach its caller: predict_interval returns
\* success=true or success=false with fallback_to_rules=true, and
\* get_model_status returns model_available=false whenever load_model did not
\* deliver a complete bundle.
C1_NoErrorEscapes ==
    /\ response.result.kind # "raised"
    /\ Responded("predict") =>
          \/ response.result.success
          \/ ~response.result.success /\ response.result.fallback_to_rules
    /\ Responded("status") =>
          (~Complete(response.handle) => ~response.result.model_available)

\* A prediction over an unreadable scaler file, after the model was cached.
C1_Witness ==
    /\ Responded("predict")
    /\ response.result.kind = "returned"
    /\ response.result.error = "EOFError"
    /\ response.result.fallback_to_rules
    /\ cache.model # NONE /\ cache.scaler = NONE

\* C2: a reader that load_model has returned to never holds a model with a
\* scaler or metadata of another training run, or with none at all.
C2_AtomicBundle ==
    \A t \in Threads :
       (pc[t] = "body" /\ handle[t].model # NONE) =>
          /\ handle[t].scaler = handle[t].model
          /\ handle[t].metadata = handle[t].model

\* C3: with concurrent first callers the model is loaded from storage at most
\* once, and no caller is handed a model with an unset scaler or metadata.
C3_AtMostOnceInit ==
    /\ modelLoads <= 1
    /\ \A t \in Threads :
          (pc[t] = "body" /\ handle[t].model # NONE) =>
             (handle[t].scaler # NONE /\ handle[t].metadata # NONE)

\* C4: the predicted_interval of a successful result lies in [1,180]: the raw
\* output when that is in range, 1 when it is below 1, 180 when it is above.
InRange(x) == x.kind = "fin" /\ CLIP_MIN <= x.val /\ x.val <= CLIP_MAX

C4_ClippedInterval ==
    (Responded("predict") /\ response.result.success) =>
       LET raw == response.result.raw
           out == response.result.predicted_interval
       IN /\ InRange(out)
          /\ InRange(raw) => out = raw
          /\ (raw.kind = "fin" /\ raw.val < CLIP_MIN) => out = Fin(CLIP_MIN)
          /\ (raw.kind = "fin" /\ raw.val > CLIP_MAX) => out = Fin(CLIP_MAX)

\* C5: with current_interval > 0 the confidence of a successful result lies in
\* [0.5, 1.0], and is clamp(1 - 0.5*|predicted - typical|/typical, 0.5, 1.0)
\* with typical = 2*current_interval and predicted the clipped prediction.
C5_ConfidenceRange ==
    (/\ Responded("predict") /\ response.result.success
     /\ CurrentInterval(response.arg) > 0) =>
       LET n == response.result.confidence[1]
           d == response.result.confidence[2]
           p == response.result.predicted_interval
           typical == 2 * CurrentInterval(response.arg)
           e == 2 * typical - Abs(p.val - typical)    \* over 2 * typical
       IN /\ d > 0
          /\ d <= 2 * n /\ n <= d
          /\ p.kind = "fin" =>
                IF 2 * e <= 2 * typical
                THEN 2 * n = d
                ELSE n * 2 * typical = e * d

\* A successful prediction of 10 days for current_interval 10: confidence 0.75.
C5_Witness ==
    /\ Responded("predict") /\ response.result.success
    /\ CurrentInterval(response.arg) = 100
    /\ response.result.predicted_interval = Fin(100)
    /\ 4 * response.result.confidence[1] = 3 * response.result.confidence[2]

\* C6: with current_interval = 0 and a bundle loaded, predict_interval returns
\* a successful result whose confidence is exactly 0.5.
C6_ZeroIntervalGuard ==
    (/\ Responded("predict")
     /\ Complete(response.handle)
     /\ response.arg.isdict
     /\ ~HasString(PredictFeatures(response.arg.map))
     /\ CurrentInterval(response.arg) = 0) =>
       /\ response.result.success
       /\ response.result.confidence = HALF

\* C7: with fewer rows than min_samples the run returns success=false with
\* samples_collected = len(rows) and samples_needed = min_samples, and leaves
\* every file as it was.
C7_InsufficientData ==
    (tpc = "exited" /\ rows >= 0 /\ rows < MIN_SAMPLES) =>
       /\ ~exit.success
       /\ exit.samples_collected = rows
       /\ exit.samples_needed = MIN_SAMPLES
       /\ disk = diskAtStart

\* 10 rows against 500, with an earlier bundle on disk.
C7_Witness ==
    /\ tpc = "exited" /\ rows = 10
    /\ exit.samples_collected = 10 /\ exit.samples_needed = 500
    /\ disk = Bundle(PRIOR)

\* C8: a call begun with the handle Ready performs no load and uses the cached
\* bundle; a call begun with the handle Unavailable does not attempt the load
\* again.
C8_HandleStateMachine ==
    \A t \in Threads :
       /\ seen[t] = "Ready" =>
             (~Loading(t) /\ (pc[t] = "body" => handle[t] = cache))
       /\ seen[t] = "Unavailable" => ~Loading(t)

\* C9: every failing training run ends with a non-zero status and a JSON
\* document on its output.
C9_FailsLoudly ==
    (tpc = "exited" /\ ~exit.success) =>
       (exit.status # 0 /\ exit.output = "json")

\* C10: the vector built at prediction time equals, position by position, the
\* vector built at training time: 17 fields, the same default for each missing
\* key, pace as fast->2, medium->1, slow->0, anything else->1.
PACE == 13

ExpectedPace ==
    IF "learning_pace" \notin DOMAIN fd THEN 10
    ELSE IF fd["learning_pace"] = Str("fast") THEN 20
    ELSE IF fd["learning_pace"] = Str("slow") THEN 0
    ELSE 10

C10_SameVector ==
    (predVec # << >> /\ trainVec # << >>) =>
       /\ Len(predVec) = 17 /\ Len(trainVec) = 17
       /\ \A i \in 1..17 : predVec[i] = trainVec[i]
       /\ \A i \in (1..17) \ {PACE} :
             FEATURE_KEYS[i] \in DOMAIN fd => predVec[i] = fd[FEATURE_KEYS[i]]
       /\ predVec[PACE] = Num(ExpectedPace)

\* Both builders ran on a mapping with an unknown pace and a missing mastery.
C10_Witness ==
    /\ predVec # << >> /\ trainVec # << >>
    /\ "learning_pace" \in DOMAIN fd /\ fd["learning_pace"] = Str("turbo")
    /\ "user_mastery" \notin DOMAIN fd
    /\ trainVec[PACE] = Num(10) /\ trainVec[2] = Num(5)

\* C11: in a single-threaded process, whenever no load is under way the three
\* cached values are all unset or all set by the same load, so a failed load
\* leaves none of them set.
C11_AllOrNothing ==
    (\A t \in active : ~Loading(t)) =>
       \/ cache = NoHandle
       \/ Complete(cache) /\ cache.scaler = cache.model
                          /\ cache.metadata = cache.model

====
